---------------------------- MODULE Spec2Model ----------------------------
(***************************************************************************)
(* A model of jsonstore/client.py: the Client class with its four          *)
(* operations get, post, put and delete, the JSON conversion of the data   *)
(* they send and receive (json.dumps, Response.json), the response check   *)
(* (__check_response) and the except clause that turns exceptions into     *)
(* JsonstoreError.                                                         *)
(*                                                                         *)
(* A call blocks in the HTTP library between issuing its request and       *)
(* receiving the response, so every operation is two steps: the part of    *)
(* the handler up to and including the request (get, post, put, delete)    *)
(* and the part from the response to the return or raise (Complete).       *)
(* Several callers may be between the two steps at the same time.          *)
(* The variable event records what the latest step did.                    *)
(***************************************************************************)
EXTENDS Integers, Sequences, FiniteSets, TLC

VARIABLES
    base_url,   \* self.__base_url
    headers,    \* self.__headers
    calls,      \* per caller: the call it is blocked in, or Idle
    event,      \* what the latest step did (request issued, call ended)
    store,      \* the remote service: URL -> stored JSON document or Absent
    written     \* history: URL -> the Python value last written successfully

vars == <<base_url, headers, calls, event, store, written>>

-----------------------------------------------------------------------------
(* Bounds and program constants *)

NumCallers == 2

DEFAULT_TIMEOUT_SECONDS == 5

Callers == 1..NumCallers

\* The caller whose program order the store properties are about.
StoreCallers == {1}

Token == "tok"

Keys == {"a", "b"}


-----------------------------------------------------------------------------
(* Python values.  t is the type; n, s, items, fields hold the payload of   *)
(* the types that have one.                                                 *)

PyVal(t, n, s, items, fields) ==
    [t |-> t, n |-> n, s |-> s, items |-> items, fields |-> fields]

PyNone == PyVal("NoneType", 0, "", <<>>, <<>>)
PyBool(b) == PyVal("bool", IF b THEN 1 ELSE 0, "", <<>>, <<>>)
PyInt(n) == PyVal("int", n, "", <<>>, <<>>)
PyStr(s) == PyVal("str", 0, s, <<>>, <<>>)
PyList(items) == PyVal("list", 0, "", items, <<>>)
PyTuple(items) == PyVal("tuple", 0, "", items, <<>>)
\* fields: a sequence of [k |-> key value, v |-> value], keys distinct
PyDict(fields) == PyVal("dict", 0, "", <<>>, fields)
\* a value json.dumps has no encoding for (here a set)
PySet == PyVal("set", 0, "", <<>>, <<>>)

(* JSON documents: what travels in a request or response body. *)
JNull == PyVal("null", 0, "", <<>>, <<>>)
JTrue == PyVal("true", 0, "", <<>>, <<>>)
JFalse == PyVal("false", 0, "", <<>>, <<>>)
JNum(n) == PyVal("number", n, "", <<>>, <<>>)
JString(s) == PyVal("string", 0, s, <<>>, <<>>)
JArray(items) == PyVal("array", 0, "", items, <<>>)
\* fields: a sequence of [k |-> string, v |-> document]
JObject(fields) == PyVal("object", 0, "", <<>>, fields)
\* a body that is not JSON text
Malformed == PyVal("malformed", 0, "", <<>>, <<>>)
\* no body (get and delete send none)
NoBody == PyVal("nobody", 0, "", <<>>, <<>>)

\* The timeout arguments a caller passes: the default and another one.
Timeouts == {PyInt(DEFAULT_TIMEOUT_SECONDS), PyInt(1)}

\* The data arguments a caller passes to post and put.
Data ==
    { PyNone,
      PyList(<<PyInt(1)>>),
      PyTuple(<<PyInt(1)>>),
      PyDict(<<[k |-> PyInt(1), v |-> PyNone]>>),
      PySet }

-----------------------------------------------------------------------------
(* json.dumps and json.loads (Response.json) *)

RECURSIVE Serializable(_)
\* json.dumps(v) raises TypeError exactly when Serializable(v) is false.
Serializable(v) ==
    CASE v.t \in {"NoneType", "bool", "int", "str"} -> TRUE
      [] v.t \in {"list", "tuple"} ->
            \A i \in 1..Len(v.items) : Serializable(v.items[i])
      [] v.t = "dict" ->
            \A i \in 1..Len(v.fields) :
                /\ v.fields[i].k.t \in {"str", "int", "bool", "NoneType"}
                /\ Serializable(v.fields[i].v)
      [] OTHER -> FALSE

\* The text json.dumps writes for a dict key.
KeyText(k) ==
    CASE k.t = "str" -> k.s
      [] k.t = "int" -> ToString(k.n)
      [] k.t = "bool" -> IF k.n = 1 THEN "true" ELSE "false"
      [] OTHER -> "null"

RECURSIVE dumps(_)
\* json.dumps(v) for a serializable v: the JSON document written.
dumps(v) ==
    CASE v.t = "NoneType" -> JNull
      [] v.t = "bool" -> IF v.n = 1 THEN JTrue ELSE JFalse
      [] v.t = "int" -> JNum(v.n)
      [] v.t = "str" -> JString(v.s)
      [] v.t \in {"list", "tuple"} ->
            JArray([i \in 1..Len(v.items) |-> dumps(v.items[i])])
      [] OTHER ->
            JObject([i \in 1..Len(v.fields) |->
                        [k |-> KeyText(v.fields[i].k), v |-> dumps(v.fields[i].v)]])

RECURSIVE loads(_)
\* Response.json() on a body that is JSON text: the Python value read.
loads(d) ==
    CASE d.t = "null" -> PyNone
      [] d.t = "true" -> PyBool(TRUE)
      [] d.t = "false" -> PyBool(FALSE)
      [] d.t = "number" -> PyInt(d.n)
      [] d.t = "string" -> PyStr(d.s)
      [] d.t = "array" ->
            PyList([i \in 1..Len(d.items) |-> loads(d.items[i])])
      [] OTHER ->
            PyDict([i \in 1..Len(d.fields) |->
                      [k |-> PyStr(d.fields[i].k), v |-> loads(d.fields[i].v)]])

-----------------------------------------------------------------------------
(* Python expressions used by the client *)

Return(v) == [kind |-> "return", value |-> v, exc |-> ""]
Raise(e) == [kind |-> "raise", value |-> PyNone, exc |-> e]

\* The exception classes that occur, each with its base classes.
Bases(e) ==
    CASE e = "ConnectionError" -> {"ConnectionError", "RequestException"}
      [] e = "HTTPError" -> {"HTTPError", "RequestException"}
      [] e = "JSONDecodeError" -> {"JSONDecodeError", "ValueError"}
      [] OTHER -> {e}

\* bool(v)
Truthy(v) ==
    CASE v.t \in {"NoneType"} -> FALSE
      [] v.t \in {"bool", "int"} -> v.n # 0
      [] v.t = "str" -> v.s # ""
      [] v.t \in {"list", "tuple"} -> Len(v.items) > 0
      [] v.t = "dict" -> Len(v.fields) > 0
      [] OTHER -> TRUE

\* sub in s, for two strings
Substring(sub, s) ==
    \E i \in 1..(Len(s) - Len(sub) + 1) : SubSeq(s, i, i + Len(sub) - 1) = sub

\* (name in v) for a string name: a boolean result or TypeError.
Contains(name, v) ==
    CASE v.t = "dict" ->
            Return(PyBool(\E i \in 1..Len(v.fields) : v.fields[i].k = PyStr(name)))
      [] v.t \in {"list", "tuple"} ->
            Return(PyBool(\E i \in 1..Len(v.items) : v.items[i] = PyStr(name)))
      [] v.t = "str" -> Return(PyBool(Substring(name, v.s)))
      [] OTHER -> Raise("TypeError")

\* v[name] for a string name: the item, KeyError or TypeError.
GetItem(v, name) ==
    IF v.t = "dict"
    THEN IF \E i \in 1..Len(v.fields) : v.fields[i].k = PyStr(name)
         THEN Return(v.fields[CHOOSE i \in 1..Len(v.fields) :
                                  v.fields[i].k = PyStr(name)].v)
         ELSE Raise("KeyError")
    ELSE Raise("TypeError")

-----------------------------------------------------------------------------
(* HTTP: requests and responses *)

Request(verb, url, hdrs, data, timeout) ==
    [verb |-> verb, url |-> url, headers |-> hdrs, data |-> data,
     timeout |-> timeout]

NoRequest == Request("", "", <<>>, NoBody, PyNone)

Response(status, body) == [kind |-> "response", status |-> status, body |-> body]

\* requests.get/post/put/delete raised instead of returning a response
\* (connection error, timeout).
TransportFailure == [kind |-> "failure", status |-> 0, body |-> NoBody]

NoResponse == [kind |-> "none", status |-> 0, body |-> NoBody]

Envelope(ok, result) == JObject(<<[k |-> "ok", v |-> ok], [k |-> "result", v |-> result]>>)
OkOnly(ok) == JObject(<<[k |-> "ok", v |-> ok]>>)

\* The status codes and bodies an arbitrary server answers with.
Statuses == {100, 200, 304, 404, 500}

Bodies ==
    { Malformed, JNull, JNum(1), JString("ok"), JString("no"),
      JArray(<<JString("ok")>>), JArray(<<>>), JObject(<<>>),
      OkOnly(JFalse), OkOnly(JTrue), OkOnly(JString("no")),
      JObject(<<[k |-> "result", v |-> JNum(1)]>>),
      Envelope(JFalse, JNum(1)),
      Envelope(JTrue, JNull), Envelope(JTrue, JArray(<<JNum(1)>>)) }

Responses ==
    {Response(st, b) : st \in Statuses, b \in Bodies} \cup {TransportFailure}

-----------------------------------------------------------------------------
(* The client *)

\* Client.__init__: the base URL built from the token.
BaseUrlOf(token) == "https://www.jsonstore.io/" \o token

FixedHeaders ==
    [n \in {"Accept", "Content-type"} |-> "application/json"]

create_url(key) == base_url \o "/" \o key

\* raise_for_status reduced to server errors
RaisesForStatusServerOnly(status) == 500 <= status /\ status < 600

\* Response.raise_for_status(): HTTPError for a 4xx or 5xx status.
RaisesForStatus(status) == 400 <= status /\ status < 600

\* Client.__check_response on a response the HTTP call returned: the
\* deserialized body, or the exception raised.
check_response(response) ==
    IF RaisesForStatus(response.status) THEN Raise("HTTPError")
    ELSE IF response.body = Malformed THEN Raise("JSONDecodeError")
    ELSE LET resp == loads(response.body)
             has == Contains("ok", resp)
         IN  IF has.kind = "raise" THEN has
             ELSE IF ~Truthy(has.value) THEN Raise("JsonstoreError")
             ELSE LET ok == GetItem(resp, "ok")
                  IN  IF ok.kind = "raise" THEN ok
                      ELSE IF ~Truthy(ok.value) THEN Raise("JsonstoreError")
                      ELSE Return(resp)

\* the except clause without ValueError
CaughtWithoutValueError == {"RequestException", "KeyError"}

\* The classes named by the operations' except clause.
Caught == {"RequestException", "ValueError", "KeyError"}

\* an except clause that returns None instead of raising
ExceptClauseReturnsNone(r) ==
    IF r.kind = "raise" /\ Bases(r.exc) \cap Caught # {}
    THEN Return(PyNone)
    ELSE r

\* except (RequestException, ValueError, KeyError) as e:
\*     raise JsonstoreError(str(e))
ExceptClause(r) ==
    IF r.kind = "raise" /\ Bases(r.exc) \cap Caught # {}
    THEN Raise("JsonstoreError")
    ELSE r

\* get returning the whole envelope instead of its result field
TryBlockWholeEnvelope(op, response) ==
    IF response.kind = "failure" THEN Raise("ConnectionError")
    ELSE LET json_resp == check_response(response)
         IN  IF json_resp.kind = "raise" THEN json_resp
             ELSE IF op = "get" THEN json_resp
             ELSE Return(PyNone)

\* The body of an operation's try block from the HTTP call's outcome on.
TryBlock(op, response) ==
    IF response.kind = "failure" THEN Raise("ConnectionError")
    ELSE LET json_resp == check_response(response)
         IN  IF json_resp.kind = "raise" THEN json_resp
             ELSE IF op = "get" THEN GetItem(json_resp.value, "result")
             ELSE Return(PyNone)

\* How an operation ends, given the outcome of its HTTP call.
Outcome(op, response) == ExceptClause(TryBlock(op, response))

-----------------------------------------------------------------------------
(* State *)

Idle == [op |-> "idle", url |-> "", json_data |-> NoBody, nreq |-> 0]

Args(key, data, timeout) == [key |-> key, data |-> data, timeout |-> timeout]

Event(kind, op, args, url, req, nreq, resp, outcome) ==
    [kind |-> kind, op |-> op, args |-> args, url |-> url, req |-> req,
     nreq |-> nreq, resp |-> resp, outcome |-> outcome]

NoArgs == Args("", PyNone, PyNone)
NoOutcome == [kind |-> "none", value |-> PyNone, exc |-> ""]

Absent == PyVal("absent", 0, "", <<>>, <<>>)
Never == PyVal("never", 0, "", <<>>, <<>>)
Deleted == PyVal("deleted", 0, "", <<>>, <<>>)

Urls == {BaseUrlOf(Token) \o "/" \o k : k \in Keys}

Init ==
    /\ base_url = BaseUrlOf(Token)
    /\ headers = FixedHeaders
    /\ calls = [c \in Callers |-> Idle]
    /\ event = Event("init", "", NoArgs, "", NoRequest, 0, NoResponse, NoOutcome)
    /\ store = [u \in Urls |-> Absent]
    /\ written = [u \in Urls |-> Never]

\* a request step that also adds a header to the client's header set
SendSettingHeader(c, op, args, req) ==
    /\ calls' = [calls EXCEPT ![c] =
                    [op |-> op, url |-> req.url, json_data |-> req.data,
                     nreq |-> 1]]
    /\ event' = Event("request", op, args, req.url, req, 1, NoResponse, NoOutcome)
    /\ headers' = [n \in DOMAIN headers \cup {"Content-Length"} |->
                      IF n \in DOMAIN headers THEN headers[n] ELSE "0"]
    /\ UNCHANGED base_url

\* The HTTP call of an operation: the request leaves and the caller blocks.
Send(c, op, args, req) ==
    /\ calls' = [calls EXCEPT ![c] =
                    [op |-> op, url |-> req.url, json_data |-> req.data,
                     nreq |-> 1]]
    /\ event' = Event("request", op, args, req.url, req, 1, NoResponse, NoOutcome)
    /\ UNCHANGED <<base_url, headers>>

\* An operation ends before any HTTP call, with exception exc.
RaiseEarly(c, op, args, url, exc) ==
    /\ calls' = [calls EXCEPT ![c] = Idle]
    /\ event' = Event("done", op, args, url, NoRequest, 0, NoResponse, Raise(exc))
    /\ UNCHANGED <<base_url, headers>>

get(c, key, timeout) ==
    /\ calls[c] = Idle
    /\ LET url == create_url(key)
       IN  Send(c, "get", Args(key, PyNone, timeout),
                Request("GET", url, headers, NoBody, PyNone))

post(c, key, data, timeout) ==
    /\ calls[c] = Idle
    /\ LET url == create_url(key)
       IN  IF Serializable(data)
           THEN Send(c, "post", Args(key, data, timeout),
                     Request("POST", url, headers, dumps(data), timeout))
           ELSE RaiseEarly(c, "post", Args(key, data, timeout), url, "TypeError")

\* put sending json.dumps(None) instead of the data
put_without_data(c, key, data, timeout) ==
    /\ calls[c] = Idle
    /\ LET url == create_url(key)
       IN  IF Serializable(data)
           THEN Send(c, "put", Args(key, data, timeout),
                     Request("PUT", url, headers, dumps(PyNone), timeout))
           ELSE RaiseEarly(c, "put", Args(key, data, timeout), url, "TypeError")

put(c, key, data, timeout) ==
    /\ calls[c] = Idle
    /\ LET url == create_url(key)
       IN  IF Serializable(data)
           THEN Send(c, "put", Args(key, data, timeout),
                     Request("PUT", url, headers, dumps(data), timeout))
           ELSE RaiseEarly(c, "put", Args(key, data, timeout), url, "TypeError")

\* delete not passing its timeout on
delete_without_timeout(c, key, timeout) ==
    /\ calls[c] = Idle
    /\ LET url == create_url(key)
       IN  Send(c, "delete", Args(key, PyNone, timeout),
                Request("DELETE", url, headers, NoBody, PyNone))

delete(c, key, timeout) ==
    /\ calls[c] = Idle
    /\ LET url == create_url(key)
       IN  Send(c, "delete", Args(key, PyNone, timeout),
                Request("DELETE", url, headers, NoBody, timeout))

\* a completion that issues the request once more after a failure
CompleteWithRetry(c, response) ==
    /\ calls[c] # Idle
    /\ IF Outcome(calls[c].op, response).kind = "raise" /\ calls[c].nreq < 2
       THEN /\ calls' = [calls EXCEPT ![c].nreq = @ + 1]
            /\ event' = Event("request", calls[c].op, NoArgs, calls[c].url,
                              NoRequest, calls[c].nreq + 1, NoResponse, NoOutcome)
       ELSE /\ calls' = [calls EXCEPT ![c] = Idle]
            /\ event' = Event("done", calls[c].op, NoArgs, calls[c].url,
                              NoRequest, calls[c].nreq, response,
                              Outcome(calls[c].op, response))
    /\ UNCHANGED <<base_url, headers>>

\* The HTTP call of caller c ends with response (or fails) and the operation
\* runs to its return or raise.  No operation issues a second request.
Complete(c, response) ==
    /\ calls[c] # Idle
    /\ calls' = [calls EXCEPT ![c] = Idle]
    /\ event' = Event("done", calls[c].op, NoArgs, calls[c].url, NoRequest,
                      calls[c].nreq, response, Outcome(calls[c].op, response))
    /\ UNCHANGED <<base_url, headers>>

\* Any server: every response is possible.
Next ==
    \E c \in Callers :
        \/ \E key \in Keys, timeout \in Timeouts :
                get(c, key, timeout) /\ UNCHANGED <<store, written>>
        \/ \E key \in Keys, data \in Data, timeout \in Timeouts :
                post(c, key, data, timeout) /\ UNCHANGED <<store, written>>
        \/ \E key \in Keys, data \in Data, timeout \in Timeouts :
                put(c, key, data, timeout) /\ UNCHANGED <<store, written>>
        \/ \E key \in Keys, timeout \in Timeouts :
                delete(c, key, timeout) /\ UNCHANGED <<store, written>>
        \/ \E response \in Responses :
                Complete(c, response) /\ UNCHANGED <<store, written>>

Spec == Init /\ [][Next]_vars

-----------------------------------------------------------------------------
(* The remote service as a store that keeps the last body written per URL. *)

\* What the store may answer to a GET of a URL it holds nothing under.
MissingAnswers ==
    { Response(404, OkOnly(JFalse)),
      Response(200, OkOnly(JFalse)),
      Response(200, Envelope(JFalse, JNull)),
      Response(200, Envelope(JTrue, JNull)) }

Answer(response, st) == [response |-> response, store |-> st]

\* The answers of the store to the request of call, each with the store
\* after it.  A request may also be lost before it reaches the store.
Service(call) ==
    {Answer(TransportFailure, store)} \cup
    CASE call.op = "post" ->
            {Answer(Response(201, OkOnly(JTrue)),
                    [store EXCEPT ![call.url] = call.json_data])}
      [] call.op = "put" ->
            {Answer(Response(200, OkOnly(JTrue)),
                    [store EXCEPT ![call.url] = call.json_data])}
      [] call.op = "delete" ->
            {Answer(Response(200, OkOnly(JTrue)),
                    [store EXCEPT ![call.url] = Absent])}
      [] OTHER ->
            IF store[call.url] = Absent
            THEN {Answer(r, store) : r \in MissingAnswers}
            ELSE {Answer(Response(200, Envelope(JTrue, store[call.url])), store)}

\* The call of caller c is answered by the store.  written follows the
\* successful writes and deletes; the caller of the store properties is
\* sequential, so the latest step before this one was this call's request
\* and event holds its arguments.
StoreComplete(c) ==
    /\ calls[c] # Idle
    /\ \E ans \in Service(calls[c]) :
        /\ Complete(c, ans.response)
        /\ store' = ans.store
        /\ written' =
            IF Outcome(calls[c].op, ans.response).kind # "return" THEN written
            ELSE IF calls[c].op \in {"post", "put"}
                 THEN [written EXCEPT ![calls[c].url] = event.args.data]
            ELSE IF calls[c].op = "delete"
                 THEN [written EXCEPT ![calls[c].url] = Deleted]
            ELSE written

StoreNext ==
    \E c \in StoreCallers :
        \/ \E key \in Keys, timeout \in Timeouts :
                get(c, key, timeout) /\ UNCHANGED <<store, written>>
        \/ \E key \in Keys, data \in Data, timeout \in Timeouts :
                post(c, key, data, timeout) /\ UNCHANGED <<store, written>>
        \/ \E key \in Keys, data \in Data, timeout \in Timeouts :
                put(c, key, data, timeout) /\ UNCHANGED <<store, written>>
        \/ \E key \in Keys, timeout \in Timeouts :
                delete(c, key, timeout) /\ UNCHANGED <<store, written>>
        \/ StoreComplete(c)

StoreSpec == Init /\ [][StoreNext]_vars

-----------------------------------------------------------------------------
(* Vocabulary of the properties *)

\* The latest step ended a call.
CallEnded == event.kind = "done"

\* The latest step ended a call whose HTTP call returned a response.
Answered == event.kind = "done" /\ event.resp.kind = "response"

\* The latest step issued a request.
Requested == event.kind = "request"

Failure == Raise("JsonstoreError")

IsObject(body) == body.t = "object"

HasField(body, name) ==
    IsObject(body) /\ \E i \in 1..Len(body.fields) : body.fields[i].k = name

Field(body, name) ==
    body.fields[CHOOSE i \in 1..Len(body.fields) : body.fields[i].k = name].v

\* The body is a JSON object with the field ok: true.
CarriesOkTrue(body) == HasField(body, "ok") /\ Field(body, "ok") = JTrue

\* The cases of a body without ok: true that are spelled out: an object
\* without the field or with a false one, or JSON text that is no object.
LacksOkTrue(body) ==
    \/ IsObject(body) /\ ~HasField(body, "ok")
    \/ HasField(body, "ok") /\ Field(body, "ok") = JFalse
    \/ body.t \in {"null", "true", "false", "number", "string", "array"}

Is2xx(status) == 200 <= status /\ status <= 299

IsErrorStatus(status) == 400 <= status /\ status <= 599

\* The JSON value is one Python reads as true: not false, null, 0, "", []
\* or {}.
JsonTruthy(d) ==
    CASE d.t \in {"null", "false"} -> FALSE
      [] d.t = "number" -> d.n # 0
      [] d.t = "string" -> d.s # ""
      [] d.t = "array" -> d.items # <<>>
      [] d.t = "object" -> d.fields # <<>>
      [] OTHER -> TRUE

\* The answer passes the client's checks for get: no error status, a JSON
\* object with a true ok field and a result field.
PassesForGet(resp) ==
    /\ resp.kind = "response"
    /\ ~IsErrorStatus(resp.status)
    /\ HasField(resp.body, "ok")
    /\ JsonTruthy(Field(resp.body, "ok"))
    /\ HasField(resp.body, "result")

StartsWith(str, prefix) ==
    Len(prefix) <= Len(str) /\ SubSeq(str, 1, Len(prefix)) = prefix

VerbOf(op) ==
    CASE op = "get" -> "GET" [] op = "post" -> "POST"
      [] op = "put" -> "PUT" [] OTHER -> "DELETE"

RECURSIVE JsonNative(_)
\* The value is built from None, bool, int, str, lists and dicts with string
\* keys only.
JsonNative(v) ==
    CASE v.t \in {"NoneType", "bool", "int", "str"} -> TRUE
      [] v.t = "list" -> \A i \in 1..Len(v.items) : JsonNative(v.items[i])
      [] v.t = "dict" ->
            \A i \in 1..Len(v.fields) :
                v.fields[i].k.t = "str" /\ JsonNative(v.fields[i].v)
      [] OTHER -> FALSE

IsValue(w) == w.t \notin {"never", "deleted"}

-----------------------------------------------------------------------------
(* Properties *)

\* C1 (as stated): whenever the response body carries no ok: true (an object
\* without the field or with a false one, or JSON text that is no object),
\* the operation fails with JsonstoreError, whatever the status.
C1_NoOkTrueFails ==
    (Answered /\ LacksOkTrue(event.resp.body)) => event.outcome = Failure

\* C2 (as stated), in the case it names: whenever the response has a status
\* outside 200-299 (1xx and 3xx included), the operation fails with
\* JsonstoreError even when the body is a well-formed envelope with ok: true.
C2_Non2xxFails ==
    (Answered /\ ~Is2xx(event.resp.status) /\ CarriesOkTrue(event.resp.body))
        => event.outcome = Failure

\* C2 (amended): whenever the response has a 4xx or 5xx status, the operation
\* fails with JsonstoreError, also when the body is an envelope with ok: true;
\* an operation may return normally on a 1xx or 3xx status.
C2_ErrorStatusFails ==
    (Answered /\ IsErrorStatus(event.resp.status)) => event.outcome = Failure

C2_Witness ==
    /\ Answered
    /\ event.resp.status = 404
    /\ event.resp.body = Envelope(JTrue, JNull)
    /\ event.outcome = Failure

\* C3: when the response body is not valid JSON, the operation fails with
\* JsonstoreError; the parse exception does not reach the caller.
C3_MalformedBodyFails ==
    (Answered /\ event.resp.body = Malformed) => event.outcome = Failure

C3_Witness ==
    /\ Answered
    /\ event.resp.status = 200
    /\ event.resp.body = Malformed
    /\ event.outcome = Failure

\* C4 (as stated): every failure of an operation reaches the caller as
\* JsonstoreError, for any data argument and any outcome of the HTTP call.
C4_OnlyJsonstoreError ==
    (CallEnded /\ event.outcome.kind = "raise") => event.outcome.exc = "JsonstoreError"

\* C5: on a response without error status whose body is an envelope with
\* ok: true, get returns exactly the value of the result field and fails with
\* JsonstoreError when there is no such field; post, put and delete succeed
\* without one.
C5_SuccessfulEnvelope ==
    (Answered /\ ~IsErrorStatus(event.resp.status)
              /\ CarriesOkTrue(event.resp.body)) =>
        IF event.op = "get"
        THEN IF HasField(event.resp.body, "result")
             THEN event.outcome = Return(loads(Field(event.resp.body, "result")))
             ELSE event.outcome = Failure
        ELSE event.outcome.kind = "return"

C5_Witness ==
    /\ Answered
    /\ event.op = "get"
    /\ event.resp = Response(200, Envelope(JTrue, JArray(<<JNum(1)>>)))
    /\ event.outcome = Return(PyList(<<PyInt(1)>>))

\* C6 (as stated): against the store, get(key) returns the value most
\* recently written under the key by a successful post or put, for every
\* value json.dumps accepts.
C6_GetReturnsWritten ==
    (Answered /\ event.op = "get" /\ IsValue(written[event.url]))
        => event.outcome = Return(written[event.url])

\* C6 (amended): against the store, get(key) returns the JSON round trip of
\* the value most recently written under the key by a successful post or
\* put; that is the value itself when it is built from None, bool, numbers,
\* strings, lists and dicts with string keys only.
C6_GetReturnsRoundTrip ==
    (Answered /\ event.op = "get" /\ IsValue(written[event.url])) =>
        /\ event.outcome = Return(loads(dumps(written[event.url])))
        /\ JsonNative(written[event.url])
                => event.outcome = Return(written[event.url])

C6_Witness ==
    /\ Answered
    /\ event.op = "get"
    /\ written[event.url] = PyList(<<PyInt(1)>>)
    /\ event.outcome = Return(PyList(<<PyInt(1)>>))
    /\ \E u \in Urls : u # event.url /\ written[u] = PyNone

C8_ExactlyOneRequest ==
    /\ CallEnded => event.nreq = 1
    /\ Requested =>
        /\ event.req.verb = VerbOf(event.op)
        /\ event.req.url = BaseUrlOf(Token) \o "/" \o event.args.key

\* C8 (amended): every call issues at most one HTTP request, and exactly one
\* unless it is a post or put whose data json.dumps rejects, which issues
\* none; the request has the verb of the operation and the URL
\* <base URL>/<key>.
C8_OneRequestUnlessUnserializable ==
    /\ CallEnded =>
        /\ event.nreq \in {0, 1}
        /\ event.nreq = 0 <=>
            /\ event.op \in {"post", "put"}
            /\ ~Serializable(event.args.data)
            /\ event.resp = NoResponse
    /\ \A c \in Callers : calls[c] # Idle => calls[c].nreq = 1
    /\ Requested =>
        /\ event.nreq = 1
        /\ event.req.verb = VerbOf(event.op)
        /\ event.req.url = BaseUrlOf(Token) \o "/" \o event.args.key

C8_Witness ==
    /\ CallEnded
    /\ event.op = "post"
    /\ event.nreq = 1
    /\ event.resp = TransportFailure
    /\ event.outcome = Failure

\* C9: the base URL and the headers of the client never change, whatever the
\* callers do, and every request carries exactly the headers
\* Accept: application/json and Content-type: application/json and a URL that
\* starts with the base URL built from the token.
C9_ClientImmutable ==
    /\ base_url = "https://www.jsonstore.io/" \o Token
    /\ DOMAIN headers = {"Accept", "Content-type"}
    /\ \A n \in DOMAIN headers : headers[n] = "application/json"
    /\ Requested =>
        /\ DOMAIN event.req.headers = {"Accept", "Content-type"}
        /\ \A n \in DOMAIN event.req.headers :
                event.req.headers[n] = "application/json"
        /\ StartsWith(event.req.url, "https://www.jsonstore.io/" \o Token)

C9_Witness ==
    /\ Requested
    /\ \A c \in Callers : calls[c] # Idle
    /\ \E c, d \in Callers : calls[c].op = "post" /\ calls[d].op = "delete"

\* C10 (as stated): get and delete do not pass the caller's timeout to the
\* HTTP call; post and put pass it.
C10_GetAndDeleteIgnoreTimeout ==
    Requested =>
        IF event.op \in {"get", "delete"}
        THEN event.req.timeout = PyNone
        ELSE event.req.timeout = event.args.timeout

\* C10 (amended): get alone does not pass the caller's timeout to the HTTP
\* call; post, put and delete pass it.
C10_OnlyGetIgnoresTimeout ==
    Requested =>
        IF event.op = "get"
        THEN event.req.timeout = PyNone
        ELSE event.req.timeout = event.args.timeout

C10_Witness ==
    /\ Requested
    /\ event.op = "delete"
    /\ event.args.timeout = PyInt(1)
    /\ event.req.timeout = PyInt(1)

=============================================================================
